---- MODULE Spec2Model ----
(***************************************************************************)
(* A model of CsvIO (src/src/data_io/csv.rs): one csv file on disk, read   *)
(* through csv::Reader<BufReader<File>> and written through                *)
(* csv::Writer<BufWriter<File>>, both opened on the same path.             *)
(*                                                                         *)
(* The file is a sequence of tokens: a field value, or NL, the record      *)
(* terminator.  Field delimiters, quoting and escaping are not modelled.   *)
(* A fatal failure (a failed expect) stops the process: pc = "panicked".   *)
(* The model stops there; unwinding and the drop of the handle are not     *)
(* modelled.                                                               *)
(***************************************************************************)
EXTENDS Integers, Sequences, FiniteSets, TLC

\* ---------------------------------------------------------------- bounds
\* The file holds at most MaxRows rows when new() is called.
MaxRows == 2
\* At most MaxWritten records are handed to write_record / write_records.
MaxWritten == 3
\* write_records takes at most MaxBatch records in one call.
MaxBatch == 2
\* Capacity, in tokens, of csv::Writer's buffer (8 KiB in the crate).
WriterCap == 4
\* Capacity, in tokens, of BufWriter's buffer (8 KiB in std).
BufWriterCap == 4

\* ---------------------------------------------------------------- values
NL == "\n"
\* Rows a file may hold before new() is called.
OldRows == {<<"h", "k">>, <<"a", "b">>}
\* Records a caller may write.
NewRecords == {<<"x">>, <<"y">>, <<"x", "y">>}
\* Option<u64>::None for the codec's first_field_count.
None == -1

RECURSIVE SeqsUpTo(_, _)
SeqsUpTo(S, n) ==
    IF n = 0 THEN {<<>>}
    ELSE LET shorter == SeqsUpTo(S, n - 1)
         IN  shorter \cup {Append(s, x) : s \in {t \in shorter : Len(t) = n - 1}, x \in S}

\* The text of a sequence of rows: each row's fields, then a terminator.
RECURSIVE Encode(_)
Encode(rows) ==
    IF rows = <<>> THEN <<>> ELSE Head(rows) \o <<NL>> \o Encode(Tail(rows))

\* ------------------------------------------------------------ file system
\* Mutant of FileOpen: the path is opened with create, so a missing file is
\* not an error.
FileOpenAnyPath(d) == TRUE

\* File::open(path): succeeds iff the path exists.
FileOpen(d) == d.exists

\* File::create(path): fails on a file that cannot be opened for writing,
\* otherwise creates the file or truncates it to zero length.
FileCreateOk(d) == ~d.exists \/ d.writable

\* Mutant of FileCreate: the file is opened for writing without truncation.
FileCreateKeepContent(d) == [d EXCEPT !.exists = TRUE, !.writable = TRUE]

FileCreate(d) == [exists |-> TRUE, writable |-> TRUE, bytes |-> <<>>]

\* ------------------------------------------------------- codec: the reader
\* Reader::from_reader: nothing is read yet (the reader is lazy).
NewReader == [pos |-> 0, eof |-> FALSE, first_field_count |-> None]

\* First index >= p that is past the end or holds no terminator (blank
\* lines are skipped).
SkipBlank(b, p) ==
    CHOOSE q \in p..(Len(b) + 1) :
        /\ (q = Len(b) + 1 \/ b[q] # NL)
        /\ \A j \in p..(q - 1) : b[j] = NL

\* First index >= p that is past the end or holds a terminator.
RowEnd(b, p) ==
    CHOOSE q \in p..(Len(b) + 1) :
        /\ (q = Len(b) + 1 \/ b[q] = NL)
        /\ \A j \in p..(q - 1) : b[j] # NL

\* Reader::read_byte_record_impl: the next row of the file as it is now, from
\* the reader's position.  End of data is sticky (ReaderEofState::Eof); a row
\* whose field count differs from the first row's is an error.
ReadRow(rd, b) ==
    IF rd.eof THEN [kind |-> "end", rd |-> rd, row |-> <<>>]
    ELSE IF rd.pos >= Len(b)
    THEN [kind |-> "end", rd |-> [rd EXCEPT !.eof = TRUE], row |-> <<>>]
    ELSE LET s == SkipBlank(b, rd.pos + 1)
         IN  IF s > Len(b)
             THEN [kind |-> "end",
                   rd |-> [rd EXCEPT !.eof = TRUE, !.pos = Len(b)],
                   row |-> <<>>]
             ELSE LET e   == RowEnd(b, s)
                      row == SubSeq(b, s, e - 1)
                      p   == IF e > Len(b) THEN Len(b) ELSE e
                  IN  IF rd.first_field_count = None
                      THEN [kind |-> "record",
                            rd |-> [rd EXCEPT !.pos = p, !.first_field_count = Len(row)],
                            row |-> row]
                      ELSE IF rd.first_field_count # Len(row)
                      THEN [kind |-> "error", rd |-> [rd EXCEPT !.pos = p], row |-> row]
                      ELSE [kind |-> "record", rd |-> [rd EXCEPT !.pos = p], row |-> row]

\* Reader::headers on a reader that has read nothing: the first row, or the
\* empty record when there is none; Err only on a read error.
Headers(rd, b) ==
    LET r == ReadRow(rd, b)
    IN  [ok |-> r.kind # "error", rd |-> r.rd,
         headers |-> IF r.kind = "record" THEN r.row ELSE <<>>]

\* All the rows of a text, read by a fresh reader.
RECURSIVE ParseFrom(_, _)
ParseFrom(rd, b) ==
    LET r == ReadRow(rd, b)
    IN  IF r.kind = "record" THEN <<r.row>> \o ParseFrom(r.rd, b) ELSE <<>>

Parse(b) == ParseFrom(NewReader, b)

\* ------------------------------------------------------- codec: the writer
\* Writer::from_writer(BufWriter::new(file)): both buffers empty.
NewWriter == [buf |-> <<>>, bw |-> <<>>, first_field_count |-> None, fields_written |-> 0]

\* BufWriter::write_all(chunk): flushes its buffer to the file when the chunk
\* does not fit in the spare capacity, and writes a chunk at least as large as
\* the whole buffer straight to the file.  ws = [w |-> writer, bytes |-> file].
BufWriterWrite(ws, chunk) ==
    LET spill  == Len(chunk) > BufWriterCap - Len(ws.w.bw)
        bw1    == IF spill THEN <<>> ELSE ws.w.bw
        bytes1 == IF spill THEN ws.bytes \o ws.w.bw ELSE ws.bytes
    IN  IF Len(chunk) >= BufWriterCap
        THEN [w |-> [ws.w EXCEPT !.bw = bw1], bytes |-> bytes1 \o chunk]
        ELSE [w |-> [ws.w EXCEPT !.bw = bw1 \o chunk], bytes |-> bytes1]

\* Writer::flush_buf: hands the codec's buffer to the BufWriter.
FlushBuf(ws) ==
    LET r == BufWriterWrite(ws, ws.w.buf)
    IN  [w |-> [r.w EXCEPT !.buf = <<>>], bytes |-> r.bytes]

\* One token into the codec's buffer; a full buffer is flushed first
\* (WriteResult::OutputFull).
WriteToken(ws, tok) ==
    LET r == IF Len(ws.w.buf) >= WriterCap THEN FlushBuf(ws) ELSE ws
    IN  [w |-> [r.w EXCEPT !.buf = Append(@, tok)], bytes |-> r.bytes]

\* Writer::write_field_impl for every field of the record, in order.
RECURSIVE WriteFields(_, _)
WriteFields(ws, fields) ==
    IF fields = <<>> THEN ws
    ELSE LET r == WriteToken(ws, Head(fields))
         IN  WriteFields([w |-> [r.w EXCEPT !.fields_written = @ + 1], bytes |-> r.bytes],
                         Tail(fields))

\* Writer::write_record: the fields, then write_terminator, which first
\* checks the field count against the first record's (flexible = false) and
\* fails with UnequalLengths, the fields already being in the buffer.
CodecWriteRecord(ws, record) ==
    LET f == WriteFields(ws, record)
        n == f.w.fields_written
    IN  IF f.w.first_field_count # None /\ f.w.first_field_count # n
        THEN [ok |-> FALSE, w |-> f.w, bytes |-> f.bytes]
        ELSE LET t == WriteToken([w |-> [f.w EXCEPT !.first_field_count = n],
                                  bytes |-> f.bytes], NL)
             IN  [ok |-> TRUE, w |-> [t.w EXCEPT !.fields_written = 0], bytes |-> t.bytes]

\* Writer::flush: flush_buf, then BufWriter::flush: everything buffered is
\* appended to the file.
CodecFlush(ws) ==
    LET r == FlushBuf(ws)
    IN  [w |-> [r.w EXCEPT !.bw = <<>>], bytes |-> r.bytes \o r.w.bw]

\* Every token the writer has taken so far, in order: what is on disk, then
\* what the BufWriter holds, then what the codec's buffer holds.
Stream(st) == st.disk.bytes \o st.writer.bw \o st.writer.buf

\* ------------------------------------------------------------- the program
\* A program state: the file, the handle's fields, the position in new(),
\* the failure message and the value the last call returned.
Panic(st, msg) == [st EXCEPT !.pc = "panicked", !.panic_msg = msg]

\* new, line 62-63: File::open(..).expect("File not found"); Reader::from_reader.
NewOpenForRead(st) ==
    IF ~FileOpen(st.disk) THEN Panic(st, "File not found")
    ELSE [st EXCEPT !.pc = "opened", !.reader = NewReader]

\* new, line 64-65: File::create(..).expect("Could not create file");
\* Writer::from_writer.
NewCreateForWrite(st) ==
    IF ~FileCreateOk(st.disk) THEN Panic(st, "Could not create file")
    ELSE [st EXCEPT !.pc = "created", !.disk = FileCreate(st.disk), !.writer = NewWriter]

\* new, line 67-75: reader.headers().expect("No headers found").clone(); Self{..}.
NewReadHeaders(st) ==
    LET h == Headers(st.reader, st.disk.bytes)
    IN  IF ~h.ok THEN Panic([st EXCEPT !.reader = h.rd], "No headers found")
        ELSE [st EXCEPT !.pc = "ready", !.reader = h.rd, !.headers = h.headers]

\* read_record: records().next().expect("No records found").expect("Error reading record").
ReadRecord(st) ==
    LET r  == ReadRow(st.reader, st.disk.bytes)
        s1 == [st EXCEPT !.reader = r.rd, !.result = <<>>]
    IN  IF r.kind = "end" THEN Panic(s1, "No records found")
        ELSE IF r.kind = "error" THEN Panic(s1, "Error reading record")
        ELSE [s1 EXCEPT !.result = <<r.row>>]

\* read_records: pushes every remaining record; the first bad one is fatal.
RECURSIVE ReadRecordsLoop(_, _)
ReadRecordsLoop(st, records) ==
    LET r  == ReadRow(st.reader, st.disk.bytes)
        s1 == [st EXCEPT !.reader = r.rd]
    IN  IF r.kind = "end" THEN [s1 EXCEPT !.result = records]
        ELSE IF r.kind = "error" THEN Panic([s1 EXCEPT !.result = <<>>], "Error reading record")
        ELSE ReadRecordsLoop(s1, Append(records, r.row))

ReadRecords(st) == ReadRecordsLoop(st, <<>>)

\* Mutant of WriteRecord: the writer is flushed after every record.
WriteRecordThrough(st, record) ==
    LET r  == CodecWriteRecord([w |-> st.writer, bytes |-> st.disk.bytes], record)
        f  == CodecFlush([w |-> r.w, bytes |-> r.bytes])
        s1 == [st EXCEPT !.writer = f.w, !.disk.bytes = f.bytes, !.result = <<>>]
    IN  IF r.ok THEN s1 ELSE Panic(s1, "Error writing record")

\* write_record: self.writer.write_record(&record).expect("Error writing record").
WriteRecord(st, record) ==
    LET r  == CodecWriteRecord([w |-> st.writer, bytes |-> st.disk.bytes], record)
        s1 == [st EXCEPT !.writer = r.w, !.disk.bytes = r.bytes, !.result = <<>>]
    IN  IF r.ok THEN s1 ELSE Panic(s1, "Error writing record")

\* write_records: for record in records { self.write_record(record) }; a
\* panic in write_record ends the loop.
RECURSIVE WriteRecordsFrom(_, _, _)
WriteRecordsFrom(st, records, i) ==
    IF i > Len(records) \/ st.pc = "panicked" THEN st
    ELSE WriteRecordsFrom(WriteRecord(st, records[i]), records, i + 1)

\* Mutant of WriteRecords: the loop stops one record short.
WriteRecordsButLast(st, records) ==
    WriteRecordsFrom([st EXCEPT !.result = <<>>],
                     SubSeq(records, 1, Len(records) - 1), 1)

WriteRecords(st, records) == WriteRecordsFrom([st EXCEPT !.result = <<>>], records, 1)

\* save: self.writer.flush().expect("Error saving file").
Save(st) ==
    LET r == CodecFlush([w |-> st.writer, bytes |-> st.disk.bytes])
    IN  [st EXCEPT !.writer = r.w, !.disk.bytes = r.bytes, !.result = <<>>]

\* ------------------------------------------------------------------ state
VARIABLES
    disk,        \* the file at the path: exists, writable, bytes
    file_path,   \* CsvIO.file_path
    reader,      \* CsvIO.reader
    writer,      \* CsvIO.writer (the codec's buffer and the BufWriter's)
    headers,     \* CsvIO.headers
    is_open,     \* CsvIO.is_open
    pc,          \* "start", "opened", "created" (inside new), "ready", "panicked"
    panic_msg,   \* the message of the expect that failed
    result,      \* the records the last call returned
    file0,       \* history: the file as it was when new was called
    steps,       \* history: the steps of new taken so far
    last_op,     \* history: the last method called
    arg,         \* history: the records handed to the last write call
    pre,         \* history: the program state before the last call
    flat,        \* history: every record handed to a write call, in order
    read_log,    \* history: the records read_record has returned
    n_read_records, \* history: calls of read_records so far, counted to 2
    saved,       \* history: save has been called
    noclose,     \* the same calls on a handle that is never closed
    onebyone     \* the same calls, write_records replaced by write_record calls

vars == <<disk, file_path, reader, writer, headers, is_open, pc, panic_msg, result,
          file0, steps, last_op, arg, pre, flat, read_log, n_read_records, saved,
          noclose, onebyone>>

Path == "data.csv"

Cur ==
    [disk |-> disk, reader |-> reader, writer |-> writer, headers |-> headers,
     pc |-> pc, panic_msg |-> panic_msg, result |-> result]

\* The program moves to state n.
Becomes(n) ==
    /\ disk' = n.disk
    /\ reader' = n.reader
    /\ writer' = n.writer
    /\ headers' = n.headers
    /\ pc' = n.pc
    /\ panic_msg' = n.panic_msg
    /\ result' = n.result
    /\ pre' = Cur

Absent == [exists |-> FALSE, writable |-> FALSE, bytes |-> <<>>]

Files ==
    {Absent} \cup
    {[exists |-> TRUE, writable |-> w, bytes |-> Encode(rows)] :
        w \in BOOLEAN, rows \in SeqsUpTo(OldRows, MaxRows)}

Init ==
    /\ disk \in Files
    /\ file_path = ""
    /\ reader = NewReader
    /\ writer = NewWriter
    /\ headers = <<>>
    /\ is_open = FALSE
    /\ pc = "start"
    /\ panic_msg = ""
    /\ result = <<>>
    /\ file0 = disk
    /\ steps = <<>>
    /\ last_op = "none"
    /\ arg = <<>>
    /\ pre = Cur
    /\ flat = <<>>
    /\ read_log = <<>>
    /\ n_read_records = 0
    /\ saved = FALSE
    /\ noclose = Cur
    /\ onebyone = Cur

\* ---------------------------------------------------------------- actions
\* new(file_path), first step (line 62-63).
new_open ==
    /\ pc = "start"
    /\ Becomes(NewOpenForRead(Cur))
    /\ noclose' = NewOpenForRead(noclose)
    /\ onebyone' = NewOpenForRead(onebyone)
    /\ steps' = Append(steps, "open_read")
    /\ last_op' = "new"
    /\ UNCHANGED <<file_path, is_open, file0, arg, flat, read_log, n_read_records, saved>>

\* new(file_path), second step (line 64-65).
new_create ==
    /\ pc = "opened"
    /\ Becomes(NewCreateForWrite(Cur))
    /\ noclose' = NewCreateForWrite(noclose)
    /\ onebyone' = NewCreateForWrite(onebyone)
    /\ steps' = Append(steps, "create_write")
    /\ UNCHANGED <<file_path, is_open, file0, last_op, arg, flat, read_log,
                   n_read_records, saved>>

\* new(file_path), last step (line 67-76): headers, then the handle is built.
new_headers ==
    /\ pc = "created"
    /\ LET n == NewReadHeaders(Cur)
       IN  /\ Becomes(n)
           /\ file_path' = IF n.pc = "ready" THEN Path ELSE file_path
           /\ is_open' = (n.pc = "ready")
    /\ noclose' = NewReadHeaders(noclose)
    /\ onebyone' = NewReadHeaders(onebyone)
    /\ steps' = Append(steps, "read_headers")
    /\ UNCHANGED <<file0, last_op, arg, flat, read_log, n_read_records, saved>>

read_record ==
    /\ pc = "ready"
    /\ LET n == ReadRecord(Cur)
       IN  /\ Becomes(n)
           /\ read_log' = IF n.pc = "ready" THEN read_log \o n.result ELSE read_log
    /\ noclose' = ReadRecord(noclose)
    /\ onebyone' = ReadRecord(onebyone)
    /\ last_op' = "read_record"
    /\ arg' = <<>>
    /\ UNCHANGED <<file_path, is_open, file0, steps, flat, n_read_records, saved>>

read_records ==
    /\ pc = "ready"
    /\ Becomes(ReadRecords(Cur))
    /\ noclose' = ReadRecords(noclose)
    /\ onebyone' = ReadRecords(onebyone)
    /\ last_op' = "read_records"
    /\ arg' = <<>>
    /\ n_read_records' = IF n_read_records < 2 THEN n_read_records + 1 ELSE 2
    /\ UNCHANGED <<file_path, is_open, file0, steps, flat, read_log, saved>>

write_record ==
    /\ pc = "ready"
    /\ Len(flat) < MaxWritten
    /\ \E record \in NewRecords :
        /\ Becomes(WriteRecord(Cur, record))
        /\ noclose' = WriteRecord(noclose, record)
        /\ onebyone' = WriteRecord(onebyone, record)
        /\ arg' = <<record>>
        /\ flat' = Append(flat, record)
    /\ last_op' = "write_record"
    /\ UNCHANGED <<file_path, is_open, file0, steps, read_log, n_read_records, saved>>

\* write_record for each record in turn, as separate calls: a call is made
\* only while the process is alive.
RECURSIVE OneByOne(_, _)
OneByOne(st, records) ==
    IF records = <<>> \/ st.pc = "panicked" THEN st
    ELSE OneByOne(WriteRecord(st, Head(records)), Tail(records))

write_records ==
    /\ pc = "ready"
    /\ \E records \in SeqsUpTo(NewRecords, MaxBatch) :
        /\ Len(flat) + Len(records) <= MaxWritten
        /\ Becomes(WriteRecords(Cur, records))
        /\ noclose' = WriteRecords(noclose, records)
        /\ onebyone' = OneByOne([onebyone EXCEPT !.result = <<>>], records)
        /\ arg' = records
        /\ flat' = flat \o records
    /\ last_op' = "write_records"
    /\ UNCHANGED <<file_path, is_open, file0, steps, read_log, n_read_records, saved>>

save ==
    /\ pc = "ready"
    /\ Becomes(Save(Cur))
    /\ noclose' = Save(noclose)
    /\ onebyone' = Save(onebyone)
    /\ last_op' = "save"
    /\ arg' = <<>>
    /\ saved' = TRUE
    /\ UNCHANGED <<file_path, is_open, file0, steps, flat, read_log, n_read_records>>

\* Mutant of close: closing also flushes the writer.
close_and_flush ==
    /\ pc = "ready"
    /\ is_open' = FALSE
    /\ Becomes([Save(Cur) EXCEPT !.result = result])
    /\ last_op' = "close"
    /\ arg' = <<>>
    /\ UNCHANGED <<file_path, file0, steps, flat, read_log, n_read_records, saved,
                   noclose, onebyone>>

\* close: self.is_open = false.
close ==
    /\ pc = "ready"
    /\ is_open' = FALSE
    /\ pre' = Cur
    /\ last_op' = "close"
    /\ arg' = <<>>
    /\ UNCHANGED <<disk, file_path, reader, writer, headers, pc, panic_msg, result,
                   file0, steps, flat, read_log, n_read_records, saved,
                   noclose, onebyone>>

Next ==
    \/ new_open
    \/ new_create
    \/ new_headers
    \/ read_record
    \/ read_records
    \/ write_record
    \/ write_records
    \/ save
    \/ close

Spec == Init /\ [][Next]_vars

\* ----------------------------------------------------------- claim helpers
\* The rows the file held when new was called; the first is its header.
Rows0 == Parse(file0.bytes)
DataRows0 == IF Rows0 = <<>> THEN <<>> ELSE Tail(Rows0)

Range(f) == {f[i] : i \in DOMAIN f}

NewOrder == <<"open_read", "create_write", "read_headers">>

\* A process that has not called new yet, on a disk d.
Fresh(d) ==
    [disk |-> d, reader |-> NewReader, writer |-> NewWriter, headers |-> <<>>,
     pc |-> "start", panic_msg |-> "", result |-> <<>>]

\* new(path) as a whole, then read_records: what opening the file and reading
\* it again yields.
OpenAndReadAll(d) ==
    LET a == NewOpenForRead(Fresh(d))
        b == IF a.pc = "panicked" THEN a ELSE NewCreateForWrite(a)
        c == IF b.pc = "panicked" THEN b ELSE NewReadHeaders(b)
    IN  IF c.pc = "panicked" THEN c ELSE ReadRecords(c)

\* The index of the first record of recs the codec rejects when its
\* first_field_count is fc before the call; 0 when it accepts them all.
FirstRejected(fc, recs) ==
    LET expected == IF fc # None THEN fc ELSE Len(recs[1])
        bad == {i \in DOMAIN recs : Len(recs[i]) # expected}
    IN  IF bad = {} THEN 0 ELSE CHOOSE i \in bad : \A k \in bad : i <= k

\* ------------------------------------------------------------------ claims
\* C1: when the file exists and holds at least one row at the call of new,
\* the handle's headers equal that first row.
C1_HeaderIsFirstRow ==
    (pc = "ready" /\ file0.exists /\ Rows0 # <<>>) => headers = Head(Rows0)

\* C2: with a header and N data rows in the file at the call of new, the first
\* N read_record calls return the data rows in order, and the call that
\* fails with "No records found" is the (N+1)-th.
C2_ReadOneInOrder ==
    (last_op = "read_record" /\ n_read_records = 0 /\ Rows0 # <<>>) =>
        /\ Len(read_log) <= Len(DataRows0)
        /\ read_log = SubSeq(DataRows0, 1, Len(read_log))
        /\ pc = "panicked" =>
              panic_msg = "No records found" /\ Len(read_log) = Len(DataRows0)

\* C3: the first read_records, after k successful read_record calls, returns
\* data rows k+1..N of the file as it was at the call of new; a later
\* read_records returns the empty sequence.
C3_ReadAllRemaining ==
    (last_op = "read_records" /\ Rows0 # <<>>) =>
        /\ pc = "ready"
        /\ result = IF n_read_records = 1
                    THEN SubSeq(DataRows0, Len(read_log) + 1, Len(DataRows0))
                    ELSE <<>>

\* C4: after write_record r_1..r_N and save on a handle opened on a file with
\* header H, opening the file and reading it again yields header H and the
\* records r_1..r_N.
C4_RoundTrip ==
    (pc = "ready" /\ last_op = "save" /\ Rows0 # <<>> /\ flat # <<>>) =>
        LET again == OpenAndReadAll(disk)
        IN  /\ again.pc = "ready"
            /\ again.headers = Head(Rows0)
            /\ again.result = flat

C6_MissingPathFailsAtOpen ==
    ~file0.exists =>
        /\ pc \in {"start", "panicked"}
        /\ ~disk.exists
        /\ ~is_open /\ file_path = ""
        /\ pc = "panicked" => panic_msg = "File not found" /\ steps = <<"open_read">>

C6_Witness == ~file0.exists /\ pc = "panicked"

\* C7: new on an existing file with no content fails with "No headers found"
\* at the header read and never yields a handle with empty headers.
C7_EmptyFileFails ==
    (file0.exists /\ file0.writable /\ file0.bytes = <<>> /\ Len(steps) = 3) =>
        pc = "panicked" /\ panic_msg = "No headers found"

\* C8: close sets is_open to false and leaves the rest of the handle and the
\* file as they were, and every state of a run with close calls equals, but
\* for is_open, the state of the same run without them.
C8_CloseOnlyFlag ==
    (last_op' = "close" /\ vars' # vars) =>
        /\ is_open' = FALSE
        /\ UNCHANGED <<disk, file_path, reader, writer, headers, pc, panic_msg, result>>

C9_RejectedRecordNotAppended ==
    last_op = "write_records" =>
        /\ Cur = onebyone
        /\ LET j == FirstRejected(pre.writer.first_field_count, arg)
           IN  IF pc = "panicked"
               THEN /\ j > 0 /\ panic_msg = "Error writing record"
                    /\ Stream(Cur) = Stream(pre) \o Encode(SubSeq(arg, 1, j - 1))
               ELSE j = 0 /\ Stream(Cur) = Stream(pre) \o Encode(arg)

\* C9 amended: as above, but the writer has also taken the fields of the
\* rejected record j, without a record terminator, and nothing of j+1..n.
C9_RejectedRecordFieldsAppended ==
    last_op = "write_records" =>
        /\ Cur = onebyone
        /\ LET j == FirstRejected(pre.writer.first_field_count, arg)
           IN  IF pc = "panicked"
               THEN /\ j > 0 /\ panic_msg = "Error writing record"
                    /\ Stream(Cur) = Stream(pre) \o Encode(SubSeq(arg, 1, j - 1)) \o arg[j]
               ELSE j = 0 /\ Stream(Cur) = Stream(pre) \o Encode(arg)

C9_Witness ==
    /\ last_op = "write_records" /\ pc = "panicked"
    /\ FirstRejected(pre.writer.first_field_count, arg) = 2

====
